---- MODULE Spec2Model ----
(***************************************************************************)
(* Model of tables/filters.py: the Filters container, its constructor      *)
(* (validation, level-0 normalisation, availability fallback), the 64-bit  *)
(* codec _pack/_unpack and the derivation _from_leaf.                      *)
(*                                                                         *)
(* A 64-bit word is a sequence of 8 bytes, least significant first, since  *)
(* the model checker's integers are narrower than 64 bits.  Python flag    *)
(* arguments are integers (True = 1, False = 0); bool() turns them into    *)
(* BOOLEAN.  Keyword arguments are functions whose domain holds the        *)
(* keywords actually passed, so defaults are applied as Python does.       *)
(***************************************************************************)
EXTENDS Integers, Sequences, FiniteSets, TLC

VARIABLES avail, call, arg, ret, filters, packed, copy

vars == <<avail, call, arg, ret, filters, packed, copy>>

----------------------------------------------------------------------------
(* Bounds of the explored inputs.                                          *)

\* constructor levels are drawn from -1 .. MaxLevel
MaxLevel == 10
\* byte 0 of an unpacked word is drawn from 0 .. MaxByte0 and 255
MaxByte0 == 10
\* byte 1 of an unpacked word is drawn from 0 .. MaxLibId and 255
MaxLibId == 4
\* byte 2 of an unpacked word is drawn from 0 .. MaxFlags and 255
MaxFlags == 7
\* bytes 3..7 of an unpacked word are filled with 0 .. MaxHigh, or 255
MaxHigh == 1
\* a filter dictionary holds at most MaxFilters entries
MaxFilters == 3

----------------------------------------------------------------------------
(* Module-level values of filters.py.                                      *)

all_complibs == <<"zlib", "lzo", "bzip2">>

default_complib == "zlib"

_shuffle_flag == 1

_fletcher32_flag == 2

\* Python's None, as a complib value
None == "<None>"

Range(s) == {s[i] : i \in 1..Len(s)}

\* list.index(x): 0-based position of x
index(list, x) == (CHOOSE i \in 1..Len(list) : list[i] = x) - 1

\* list[i] with Python's 0-based subscript
getitem(list, i) == list[i + 1]

\* bool(x) of an integer
bool(x) == x # 0

\* int(x) of an integer
int(x) == x

\* str(x) of a string
str(x) == x

----------------------------------------------------------------------------
(* Integer bit operations on naturals, and their use on 64-bit words.      *)

RECURSIVE BitAnd(_, _)
BitAnd(a, b) ==
    IF a = 0 \/ b = 0 THEN 0
    ELSE (a % 2) * (b % 2) + 2 * BitAnd(a \div 2, b \div 2)

RECURSIVE BitOr(_, _)
BitOr(a, b) ==
    IF a = 0 THEN b
    ELSE IF b = 0 THEN a
    ELSE (IF a % 2 = 1 \/ b % 2 = 1 THEN 1 ELSE 0) + 2 * BitOr(a \div 2, b \div 2)

ZeroWord == <<0, 0, 0, 0, 0, 0, 0, 0>>

\* packed & mask, for a mask below 256: only byte 0 can survive
AndMask(word, mask) == BitAnd(word[1], mask)

\* packed |= v, for 0 <= v < 256
OrValue(word, v) == [word EXCEPT ![1] = BitOr(@, v)]

\* packed >>= 8 on a signed 64-bit integer (the sign byte is replicated)
ShiftRight8(word) == Tail(word) \o <<IF word[8] >= 128 THEN 255 ELSE 0>>

\* packed <<= 8 on a 64-bit integer
ShiftLeft8(word) == <<0>> \o SubSeq(word, 1, 7)

----------------------------------------------------------------------------
(* Outcomes of a call that builds a Filters instance.                      *)

NoInstance == [complevel |-> -1, complib |-> None, shuffle |-> FALSE, fletcher32 |-> FALSE]

NoWord == <<>>

Return(self, warnings, asked) ==
    [status |-> "ok", value |-> self, warnings |-> warnings, asked |-> asked, error |-> ""]

Raise(message) ==
    [status |-> "ValueError", value |-> NoInstance, warnings |-> <<>>, asked |-> <<>>,
     error |-> message]

NoOutcome ==
    [status |-> "none", value |-> NoInstance, warnings |-> <<>>, asked |-> <<>>, error |-> ""]

\* a keyword argument, or the default of the signature when it is not passed
Get(kwargs, key, default) == IF key \in DOMAIN kwargs THEN kwargs[key] ELSE default

\* a bound test that lets level 10 through
LevelInRangeOffByOne(complevel) == 0 <= complevel /\ complevel <= 10

\* the test of the first statement of __init__
LevelInRange(complevel) == 0 <= complevel /\ complevel <= 9

\* an oracle test that never reports a library missing
NeverUnavailable(oracle, complib) == FALSE

\* utilsExtension.whichLibVersion(complib) is None
NotAvailable(oracle, complib) == ~oracle[complib]

\* the overrides without "complib = None" at level 0
NormalizeKeepComplib(complevel, complib, shuffle, fletcher32, oracle) ==
    IF complevel = 0
    THEN Return([complevel |-> complevel, complib |-> complib,
                 shuffle |-> FALSE, fletcher32 |-> fletcher32], <<>>, <<>>)
    ELSE IF NotAvailable(oracle, complib)
    THEN Return([complevel |-> complevel, complib |-> default_complib,
                 shuffle |-> shuffle, fletcher32 |-> fletcher32],
                <<complib>>, <<complib>>)
    ELSE Return([complevel |-> complevel, complib |-> complib,
                 shuffle |-> shuffle, fletcher32 |-> fletcher32],
                <<>>, <<complib>>)

\* the overrides without "shuffle = False" at level 0
NormalizeKeepShuffle(complevel, complib, shuffle, fletcher32, oracle) ==
    IF complevel = 0
    THEN Return([complevel |-> complevel, complib |-> None,
                 shuffle |-> shuffle, fletcher32 |-> fletcher32], <<>>, <<>>)
    ELSE IF NotAvailable(oracle, complib)
    THEN Return([complevel |-> complevel, complib |-> default_complib,
                 shuffle |-> shuffle, fletcher32 |-> fletcher32],
                <<complib>>, <<complib>>)
    ELSE Return([complevel |-> complevel, complib |-> complib,
                 shuffle |-> shuffle, fletcher32 |-> fletcher32],
                <<>>, <<complib>>)

\* the overrides of the inputs and the assignment of the four attributes;
\* the outcome records the warning emitted and the oracle queries made
Normalize(complevel, complib, shuffle, fletcher32, oracle) ==
    IF complevel = 0
    THEN Return([complevel |-> complevel, complib |-> None,
                 shuffle |-> FALSE, fletcher32 |-> fletcher32], <<>>, <<>>)
    ELSE IF NotAvailable(oracle, complib)
    THEN Return([complevel |-> complevel, complib |-> default_complib,
                 shuffle |-> shuffle, fletcher32 |-> fletcher32],
                <<complib>>, <<complib>>)
    ELSE Return([complevel |-> complevel, complib |-> complib,
                 shuffle |-> shuffle, fletcher32 |-> fletcher32],
                <<>>, <<complib>>)

\* a constructor that tests the library only when compression is enabled
__init__LibraryCheckedLate(kwargs, oracle) ==
    LET complevel0  == Get(kwargs, "complevel", 0)
        complib0    == Get(kwargs, "complib", default_complib)
        shuffle0    == Get(kwargs, "shuffle", 1)
        fletcher320 == Get(kwargs, "fletcher32", 0)
    IN  IF ~LevelInRange(complevel0)
        THEN Raise("compression level must be between 0 and 9")
        ELSE IF complevel0 > 0 /\ complib0 \notin Range(all_complibs)
        THEN Raise("compression library is not supported")
        ELSE Normalize(int(complevel0), str(complib0), bool(shuffle0),
                       bool(fletcher320), oracle)

\* Filters.__init__(self, complevel=0, complib=default_complib, shuffle=True, fletcher32=False)
__init__(kwargs, oracle) ==
    LET complevel0  == Get(kwargs, "complevel", 0)
        complib0    == Get(kwargs, "complib", default_complib)
        shuffle0    == Get(kwargs, "shuffle", 1)
        fletcher320 == Get(kwargs, "fletcher32", 0)
    IN  IF ~LevelInRange(complevel0)
        THEN Raise("compression level must be between 0 and 9")
        ELSE IF complib0 \notin Range(all_complibs)
        THEN Raise("compression library is not supported")
        ELSE Normalize(int(complevel0), str(complib0), bool(shuffle0),
                       bool(fletcher320), oracle)

\* a decoder that tests each flag with the other flag's mask
_unpackFlagsSwapped(word, oracle) ==
    LET complevel  == AndMask(word, 255)
        packed1    == ShiftRight8(word)
        complib_id == int(AndMask(packed1, 255))
        packed2    == ShiftRight8(packed1)
        flags      == ("shuffle" :> AndMask(packed2, _fletcher32_flag))
                      @@ ("fletcher32" :> AndMask(packed2, _shuffle_flag))
    IN  IF complevel > 0
        THEN IF ~(0 < complib_id /\ complib_id <= Len(all_complibs))
             THEN Raise("invalid compression library id")
             ELSE __init__(("complevel" :> complevel)
                           @@ ("complib" :> getitem(all_complibs, complib_id - 1))
                           @@ flags, oracle)
        ELSE __init__(("complevel" :> complevel) @@ flags, oracle)

\* a decoder that forgets the second "packed >>= 8"
_unpackOneShift(word, oracle) ==
    LET complevel  == AndMask(word, 255)
        packed1    == ShiftRight8(word)
        complib_id == int(AndMask(packed1, 255))
        flags      == ("shuffle" :> AndMask(packed1, _shuffle_flag))
                      @@ ("fletcher32" :> AndMask(packed1, _fletcher32_flag))
    IN  IF complevel > 0
        THEN IF ~(0 < complib_id /\ complib_id <= Len(all_complibs))
             THEN Raise("invalid compression library id")
             ELSE __init__(("complevel" :> complevel)
                           @@ ("complib" :> getitem(all_complibs, complib_id - 1))
                           @@ flags, oracle)
        ELSE __init__(("complevel" :> complevel) @@ flags, oracle)

\* Filters._unpack(class_, packed)
_unpack(word, oracle) ==
    LET complevel  == AndMask(word, 255)
        packed1    == ShiftRight8(word)
        complib_id == int(AndMask(packed1, 255))
        packed2    == ShiftRight8(packed1)
        flags      == ("shuffle" :> AndMask(packed2, _shuffle_flag))
                      @@ ("fletcher32" :> AndMask(packed2, _fletcher32_flag))
    IN  IF complevel > 0
        THEN IF ~(0 < complib_id /\ complib_id <= Len(all_complibs))
             THEN Raise("invalid compression library id")
             ELSE __init__(("complevel" :> complevel)
                           @@ ("complib" :> getitem(all_complibs, complib_id - 1))
                           @@ flags, oracle)
        ELSE __init__(("complevel" :> complevel) @@ flags, oracle)

\* an encoder that stores the 0-based position of the library
_packZeroBased(self) ==
    LET packed0 == ZeroWord
        packed1 == IF self.shuffle THEN OrValue(packed0, _shuffle_flag) ELSE packed0
        packed2 == IF self.fletcher32 THEN OrValue(packed1, _fletcher32_flag) ELSE packed1
        packed3 == ShiftLeft8(packed2)
        packed4 == IF self.complevel > 0
                   THEN OrValue(packed3, index(all_complibs, self.complib))
                   ELSE packed3
        packed5 == ShiftLeft8(packed4)
    IN  OrValue(packed5, self.complevel)

\* an encoder that forgets the first "packed <<= 8"
_packOneShift(self) ==
    LET packed0 == ZeroWord
        packed1 == IF self.shuffle THEN OrValue(packed0, _shuffle_flag) ELSE packed0
        packed2 == IF self.fletcher32 THEN OrValue(packed1, _fletcher32_flag) ELSE packed1
        packed4 == IF self.complevel > 0
                   THEN OrValue(packed2, index(all_complibs, self.complib) + 1)
                   ELSE packed2
        packed5 == ShiftLeft8(packed4)
    IN  OrValue(packed5, self.complevel)

\* Filters._pack(self)
_pack(self) ==
    LET packed0 == ZeroWord
        packed1 == IF self.shuffle THEN OrValue(packed0, _shuffle_flag) ELSE packed0
        packed2 == IF self.fletcher32 THEN OrValue(packed1, _fletcher32_flag) ELSE packed1
        packed3 == ShiftLeft8(packed2)
        packed4 == IF self.complevel > 0
                   THEN OrValue(packed3, index(all_complibs, self.complib) + 1)
                   ELSE packed3
        packed5 == ShiftLeft8(packed4)
    IN  OrValue(packed5, self.complevel)

\* Filters.__eq__(self, other), for two Filters instances
__eq__(self, other) ==
    /\ self.complib = other.complib
    /\ self.complevel = other.complevel
    /\ self.shuffle = other.shuffle
    /\ self.fletcher32 = other.fletcher32

\* a loop body that does not know the name "deflate"
LeafItemNoAlias(kwargs, item) ==
    LET name == item.name
    IN  IF name \in Range(all_complibs)
        THEN ("complib" :> name) @@ ("complevel" :> getitem(item.values, 0)) @@ kwargs
        ELSE IF name \in {"shuffle", "fletcher32"}
        THEN (name :> 1) @@ kwargs
        ELSE kwargs

\* the body of the loop of _from_leaf, for one (name, values) item
LeafItem(kwargs, item) ==
    LET name == IF item.name = "deflate" THEN "zlib" ELSE item.name
    IN  IF name \in Range(all_complibs)
        THEN ("complib" :> name) @@ ("complevel" :> getitem(item.values, 0)) @@ kwargs
        ELSE IF name \in {"shuffle", "fletcher32"}
        THEN (name :> 1) @@ kwargs
        ELSE kwargs

RECURSIVE LeafLoop(_, _)
LeafLoop(kwargs, items) ==
    IF items = <<>> THEN kwargs
    ELSE LeafLoop(LeafItem(kwargs, Head(items)), Tail(items))

\* Filters._from_leaf(class_, leaf); filtersDict is what getFilters returned:
\* isNone for None, else its items in iteration order
_from_leaf(filtersDict, oracle) ==
    LET items == IF filtersDict.isNone THEN <<>> ELSE filtersDict.items
        all_off == ("complevel" :> 0) @@ ("shuffle" :> 0) @@ ("fletcher32" :> 0)
    IN  __init__(LeafLoop(all_off, items), oracle)

----------------------------------------------------------------------------
(* Inputs.                                                                 *)

Oracles == [Range(all_complibs) -> BOOLEAN]

LevelInputs == -1..MaxLevel

ComplibInputs == Range(all_complibs) \cup {None, "", "unknown-lib"}

FlagInputs == {0, 1}

Optional(key, values) == {<<>>} \cup {key :> v : v \in values}

ConstructInputs ==
    {l @@ c @@ s @@ f :
        l \in Optional("complevel", LevelInputs),
        c \in Optional("complib", ComplibInputs),
        s \in Optional("shuffle", FlagInputs),
        f \in Optional("fletcher32", FlagInputs)}

HighParts ==
    {<<h, h, h, h, h>> : h \in (0..MaxHigh) \cup {255}}
        \cup {<<0, 0, 0, 0, 128>>, <<1, 0, 0, 0, 0>>}

WordInputs ==
    {<<b0, b1, b2>> \o hi :
        b0 \in (0..MaxByte0) \cup {255},
        b1 \in (0..MaxLibId) \cup {255},
        b2 \in (0..MaxFlags) \cup {255},
        hi \in HighParts}

LeafLevels == {0, 9, 10}

LeafItems ==
    {[name |-> n, values |-> <<l>>] :
        n \in {"deflate", "zlib", "lzo", "bzip2"}, l \in LeafLevels}
        \cup {[name |-> n, values |-> <<>>] : n \in {"shuffle", "fletcher32", "szip"}}

Names(items) == {items[i].name : i \in 1..Len(items)}

RECURSIVE ItemSeqs(_)
ItemSeqs(n) ==
    IF n = 0 THEN {<<>>}
    ELSE LET shorter == ItemSeqs(n - 1)
         IN  shorter \cup
             {Append(d, e) : <<d, e>> \in
                 {p \in shorter \X LeafItems : p[2].name \notin Names(p[1])}}

LeafInputs ==
    {[isNone |-> TRUE, items |-> <<>>]}
        \cup {[isNone |-> FALSE, items |-> d] : d \in ItemSeqs(MaxFilters)}

----------------------------------------------------------------------------
(* The state machine: a client makes one of the three constructing calls,   *)
(* packs the instance it got, unpacks the packed word again, and drops     *)
(* everything before the next constructing call.  The operations keep no   *)
(* state of their own, so a call's outcome never depends on earlier calls. *)

Init ==
    /\ avail \in Oracles
    /\ call = "start"
    /\ arg = <<>>
    /\ ret = NoOutcome
    /\ filters = NoInstance
    /\ packed = NoWord
    /\ copy = NoOutcome

Created(name, input, outcome) ==
    /\ call' = name
    /\ arg' = input
    /\ ret' = outcome
    /\ filters' = outcome.value
    /\ packed' = NoWord
    /\ copy' = NoOutcome
    /\ UNCHANGED avail

Construct ==
    /\ call = "start"
    /\ \E kwargs \in ConstructInputs :
          Created("construct", kwargs, __init__(kwargs, avail))

Unpack ==
    /\ call = "start"
    /\ \E word \in WordInputs : Created("unpack", word, _unpack(word, avail))

FromLeaf ==
    /\ call = "start"
    /\ \E d \in LeafInputs : Created("from_leaf", d, _from_leaf(d, avail))

Pack ==
    /\ filters # NoInstance
    /\ packed = NoWord
    /\ packed' = _pack(filters)
    /\ UNCHANGED <<avail, call, arg, ret, filters, copy>>

UnpackPacked ==
    /\ packed # NoWord
    /\ copy = NoOutcome
    /\ copy' = _unpack(packed, avail)
    /\ UNCHANGED <<avail, call, arg, ret, filters, packed>>

Drop ==
    /\ call # "start"
    /\ call' = "start"
    /\ arg' = <<>>
    /\ ret' = NoOutcome
    /\ filters' = NoInstance
    /\ packed' = NoWord
    /\ copy' = NoOutcome
    /\ UNCHANGED avail

Next == Construct \/ Unpack \/ FromLeaf \/ Pack \/ UnpackPacked \/ Drop

Spec == Init /\ [][Next]_vars

----------------------------------------------------------------------------
(* Vocabulary of the properties.                                           *)

\* the persisted numeric id of each library
LibraryId == [zlib |-> 1, lzo |-> 2, bzip2 |-> 3]

\* the library a persisted id names
LibraryOfId == <<"zlib", "lzo", "bzip2">>

\* the data-model invariants of a configuration
Valid(cfg) ==
    /\ cfg.complevel \in 0..9
    /\ cfg.complevel = 0 => cfg.complib = None /\ cfg.shuffle = FALSE
    /\ cfg.complevel > 0 => cfg.complib \in {"zlib", "lzo", "bzip2"}
    /\ cfg.fletcher32 \in BOOLEAN

ValidConfigs ==
    {cfg \in [complevel : 0..9, complib : {"zlib", "lzo", "bzip2", None},
              shuffle : BOOLEAN, fletcher32 : BOOLEAN] : Valid(cfg)}

\* the word whose three low bytes are b0, b1, b2 and whose other bytes are 0
Word(b0, b1, b2) == <<b0, b1, b2, 0, 0, 0, 0, 0>>

\* the number a word with zero bytes 3..7 stands for
WordValue(word) == word[1] + 256 * word[2] + 65536 * word[3]

Bit(byte, n) == (byte \div (2 ^ n)) % 2 = 1

FlagsByte(cfg) == (IF cfg.shuffle THEN 1 ELSE 0) + (IF cfg.fletcher32 THEN 2 ELSE 0)

AllAvailable == \A lib \in {"zlib", "lzo", "bzip2"} : avail[lib]

\* what the caller of the constructor asked for, defaults included
AskedLevel == Get(arg, "complevel", 0)
AskedLibrary == Get(arg, "complib", "zlib")
AskedShuffle == Get(arg, "shuffle", 1) = 1
AskedChecksum == Get(arg, "fletcher32", 0) = 1

Kwargs(level, library, shuffle, checksum) ==
    ("complevel" :> level) @@ ("complib" :> library)
        @@ ("shuffle" :> shuffle) @@ ("fletcher32" :> checksum)

----------------------------------------------------------------------------
\* C1: round trip. Whenever a valid configuration has been packed and the
\* packed word unpacked again under the same oracle, the unpack succeeded and
\* returned a configuration equal to the packed one in all four fields; and
\* unpacking 0x30309 gives what construct(9, "bzip2", True, True) gives.
RoundTrip ==
    /\ copy.status # "none" =>
          /\ copy.status = "ok"
          /\ copy.value.complevel = filters.complevel
          /\ copy.value.complib = filters.complib
          /\ copy.value.shuffle = filters.shuffle
          /\ copy.value.fletcher32 = filters.fletcher32
          /\ __eq__(copy.value, filters)
    /\ (call = "unpack" /\ arg = Word(9, 3, 3)) =>
          /\ ret.status = "ok"
          /\ ret.value = __init__(Kwargs(9, "bzip2", 1, 1), avail).value

RoundTripWitness ==
    /\ call = "construct"
    /\ filters = [complevel |-> 9, complib |-> "bzip2", shuffle |-> TRUE, fletcher32 |-> TRUE]
    /\ packed = Word(9, 3, 3)
    /\ copy.status = "ok"

\* C2: every instance returned by construct, unpack or derive, under any
\* oracle, satisfies the data-model invariants, and so does every instance
\* obtained by unpacking a packed word.
DataModelInvariants ==
    /\ ret.status = "ok" => filters = ret.value /\ Valid(filters)
    /\ copy.status = "ok" => Valid(copy.value)

DataModelWitness ==
    /\ call = "unpack"
    /\ arg[1] = 0 /\ arg[2] = 255 /\ arg[3] = 255
    /\ ret.status = "ok"
    /\ filters.complevel = 0

\* C3 as stated: the packed word has the byte layout level, library id,
\* flags, zeros, and the three known vectors hold for every construct,
\* whatever the oracle reports.
PackLayoutAnyOracle ==
    packed # NoWord =>
        /\ packed = <<filters.complevel,
                      IF filters.complevel > 0 THEN LibraryId[filters.complib] ELSE 0,
                      FlagsByte(filters), 0, 0, 0, 0, 0>>
        /\ (call = "construct" /\ arg = Kwargs(1, "zlib", 0, 0)) => WordValue(packed) = 257
        /\ (call = "construct" /\ arg = Kwargs(9, "bzip2", 1, 1)) => WordValue(packed) = 197385
        /\ (call = "construct" /\ arg = Kwargs(0, default_complib, 1, 0)) => WordValue(packed) = 0

\* C3 as amended: the same layout and vectors, the bzip2 vector (0x30309)
\* for an oracle that reports bzip2 available; when bzip2 is reported
\* unavailable the packed word is 0x30109.
PackLayout ==
    packed # NoWord =>
        /\ Len(packed) = 8
        /\ packed[1] = filters.complevel
        /\ packed[2] = (IF filters.complevel > 0 THEN LibraryId[filters.complib] ELSE 0)
        /\ Bit(packed[3], 0) = filters.shuffle
        /\ Bit(packed[3], 1) = filters.fletcher32
        /\ packed[3] < 4
        /\ \A i \in 4..8 : packed[i] = 0
        /\ WordValue(packed) =
              (FlagsByte(filters) * 256 + packed[2]) * 256 + filters.complevel
        /\ (call = "construct" /\ arg = Kwargs(1, "zlib", 0, 0)) => WordValue(packed) = 257
        /\ (call = "construct" /\ arg = Kwargs(9, "bzip2", 1, 1)) =>
              WordValue(packed) = (IF avail["bzip2"] THEN 197385 ELSE 196873)
        /\ (call = "construct" /\ arg = Kwargs(0, default_complib, 1, 0)) => WordValue(packed) = 0

PackLayoutWitness ==
    /\ call = "construct"
    /\ arg = Kwargs(9, "bzip2", 1, 1)
    /\ ~avail["bzip2"]
    /\ packed = Word(9, 1, 3)

\* C4 as stated: construct fails exactly when the level is outside 0..9 or
\* the library is non-empty (given, not None, not the empty string) and not
\* registered.
ConstructFailsNonEmptyUnregistered ==
    call = "construct" =>
        (ret.status = "ValueError" <=>
            \/ AskedLevel \notin 0..9
            \/ /\ "complib" \in DOMAIN arg
               /\ arg["complib"] \notin {None, ""}
               /\ arg["complib"] \notin {"zlib", "lzo", "bzip2"})

\* C4 as amended: construct fails exactly when the level is outside 0..9 or
\* the library (zlib when the argument is omitted) is not a registered name,
\* None and the empty string included; a registered library reported
\* unavailable does not fail, and the library is tested before normalisation,
\* so level 0 with an unknown library fails.
ConstructFails ==
    call = "construct" =>
        /\ ret.status \in {"ok", "ValueError"}
        /\ ret.status = "ValueError" <=>
              \/ AskedLevel \notin 0..9
              \/ AskedLibrary \notin {"zlib", "lzo", "bzip2"}
        /\ (AskedLevel = 0 /\ AskedLibrary = "unknown-lib") => ret.status = "ValueError"
        /\ ret.status = "ValueError" => filters = NoInstance /\ ret.warnings = <<>>

ConstructFailsWitness ==
    /\ call = "construct"
    /\ "complib" \in DOMAIN arg
    /\ arg["complib"] = None
    /\ AskedLevel = 1
    /\ ret.status = "ValueError"

\* C5: unpack fails exactly when byte 0 is outside 0..9, or byte 0 is above 0
\* and byte 1 is 0 or above 3; the other bits of the word do not matter.
\* 0x3030A and 0x1 fail.
UnpackFails ==
    call = "unpack" =>
        /\ ret.status \in {"ok", "ValueError"}
        /\ ret.status = "ValueError" <=>
              \/ arg[1] \notin 0..9
              \/ arg[1] > 0 /\ arg[2] \notin 1..3
        /\ arg = Word(10, 3, 3) => ret.status = "ValueError"
        /\ arg = Word(1, 0, 0) => ret.status = "ValueError"

UnpackFailsWitness ==
    /\ call = "unpack"
    /\ arg[1] = 0 /\ arg[2] = 255 /\ arg[3] = 255 /\ arg[8] = 255
    /\ ret.status = "ok"

\* C6 as stated: an accepted word decodes field by field, with no further
\* normalisation and no availability check.
UnpackPlainDecode ==
    (call = "unpack" /\ ret.status = "ok") =>
        /\ ret.value.complevel = arg[1]
        /\ ret.value.complib = (IF arg[1] > 0 THEN LibraryOfId[arg[2]] ELSE None)
        /\ ret.value.shuffle = Bit(arg[3], 0)
        /\ ret.value.fletcher32 = Bit(arg[3], 1)

\* C6 as amended: an accepted word decodes field by field and the decoded
\* fields go through the constructor: the level is byte 0; at level 0 the
\* library is unset and shuffle is False; above level 0 the library is the
\* registry entry byte 1 names when the oracle reports it available and the
\* default library (with one warning) when not, and shuffle is bit 0 of
\* byte 2; the checksum is bit 1 of byte 2.
UnpackDecode ==
    (call = "unpack" /\ ret.status = "ok") =>
        /\ ret.value.complevel = arg[1]
        /\ arg[1] = 0 =>
              /\ ret.value.complib = None
              /\ ret.value.shuffle = FALSE
              /\ ret.warnings = <<>>
        /\ arg[1] > 0 =>
              /\ ret.value.complib =
                    (IF avail[LibraryOfId[arg[2]]] THEN LibraryOfId[arg[2]] ELSE "zlib")
              /\ Len(ret.warnings) = (IF avail[LibraryOfId[arg[2]]] THEN 0 ELSE 1)
              /\ ret.value.shuffle = Bit(arg[3], 0)
        /\ ret.value.fletcher32 = Bit(arg[3], 1)

UnpackDecodeWitness ==
    /\ call = "unpack"
    /\ arg[1] = 9 /\ arg[2] = 3 /\ arg[3] = 7
    /\ ~avail["bzip2"]
    /\ ret.status = "ok"
    /\ ret.value.complib = "zlib"

\* C7: construct with a level in 1..9 and a registered library never fails;
\* when the oracle reports the library unavailable it emits one warning and
\* the library is the default (zlib, the first registry entry), level,
\* shuffle and checksum being as requested; when the library is available
\* there is no warning and the library is the requested one.
AvailabilityFallback ==
    (call = "construct" /\ AskedLevel \in 1..9 /\ AskedLibrary \in {"zlib", "lzo", "bzip2"}) =>
        /\ ret.status = "ok"
        /\ ret.value.complevel = AskedLevel
        /\ ret.value.shuffle = AskedShuffle
        /\ ret.value.fletcher32 = AskedChecksum
        /\ avail[AskedLibrary] =>
              /\ ret.warnings = <<>>
              /\ ret.value.complib = AskedLibrary
        /\ ~avail[AskedLibrary] =>
              /\ Len(ret.warnings) = 1
              /\ ret.value.complib = "zlib"
              /\ ret.value.complib = default_complib
              /\ ret.value.complib = all_complibs[1]

AvailabilityFallbackWitness ==
    /\ call = "construct"
    /\ arg = Kwargs(5, "lzo", 1, 1)
    /\ ~avail["lzo"]
    /\ ret.status = "ok"
    /\ Len(ret.warnings) = 1

\* C8: every successful construct keeps the requested checksum and level; at
\* level 0 the library is None and shuffle is False whatever was requested,
\* the oracle is not asked and nothing is warned; above level 0 shuffle is
\* the requested one.
LevelZeroNormalization ==
    (call = "construct" /\ ret.status = "ok") =>
        /\ ret.value.fletcher32 = AskedChecksum
        /\ ret.value.complevel = AskedLevel
        /\ AskedLevel = 0 =>
              /\ ret.value.complib = None
              /\ ret.value.shuffle = FALSE
              /\ ret.asked = <<>>
              /\ ret.warnings = <<>>
        /\ AskedLevel > 0 =>
              /\ ret.value.shuffle = AskedShuffle
              /\ ret.asked = <<AskedLibrary>>

LevelZeroNormalizationWitness ==
    /\ call = "construct"
    /\ arg = Kwargs(0, "lzo", 1, 1)
    /\ ~avail["lzo"]
    /\ ret.status = "ok"
    /\ ret.value.fletcher32

----------------------------------------------------------------------------
(* Derivation from a filter dictionary.                                    *)

LeafNames == IF arg.isNone THEN {} ELSE Names(arg.items)

Canonical(name) == IF name = "deflate" THEN "zlib" ELSE name

\* positions of the entries that name a library or the alias of one
LibraryEntries ==
    IF arg.isNone THEN {}
    ELSE {i \in 1..Len(arg.items) :
            arg.items[i].name \in {"deflate", "zlib", "lzo", "bzip2"}}

\* the library entry met last
LastLibraryEntry ==
    arg.items[CHOOSE i \in LibraryEntries : \A j \in LibraryEntries : j <= i]

DerivedLevel == IF LibraryEntries = {} THEN 0 ELSE LastLibraryEntry.values[1]

DerivedLibrary == Canonical(LastLibraryEntry.name)

\* C9 as stated: derive applies every entry to the all-off default and the
\* result holds the fields so set: level and library of the library entry,
\* shuffle True exactly when there is a "shuffle" entry, checksum True when
\* there is a checksum entry.
DerivePlain ==
    call = "from_leaf" =>
        /\ ret.status = "ok"
        /\ ret.value.complevel = DerivedLevel
        /\ ret.value.complib = (IF LibraryEntries = {} THEN None ELSE DerivedLibrary)
        /\ ret.value.shuffle = ("shuffle" \in LeafNames)
        /\ ret.value.fletcher32 = ("fletcher32" \in LeafNames)

\* C9 as amended: derive applies every entry to the all-off default and
\* passes the fields so set to the constructor. The level of the library
\* entry met last decides: outside 0..9 the derivation fails; at 0 (or with
\* no library entry) the library is None and shuffle is False; above 0 the
\* library is the canonical name of that entry (deflate -> zlib), or the
\* default when the oracle reports it unavailable, and shuffle is True
\* exactly when there is a "shuffle" entry. Checksum is True exactly when
\* there is a checksum entry; other names are ignored. An empty or absent
\* dictionary derives the all-off default, and {"bzip2": [9]} derives level
\* 9 with library bzip2 when bzip2 is available.
Derive ==
    call = "from_leaf" =>
        /\ ret.status = "ValueError" <=> DerivedLevel \notin 0..9
        /\ ret.status = "ok" =>
              /\ ret.value.complevel = DerivedLevel
              /\ ret.value.fletcher32 = ("fletcher32" \in LeafNames)
              /\ DerivedLevel = 0 =>
                    /\ ret.value.complib = None
                    /\ ret.value.shuffle = FALSE
              /\ DerivedLevel > 0 =>
                    /\ ret.value.complib =
                          (IF avail[DerivedLibrary] THEN DerivedLibrary ELSE "zlib")
                    /\ ret.value.shuffle = ("shuffle" \in LeafNames)
        /\ (arg.isNone \/ arg.items = <<>>) =>
              ret.value = [complevel |-> 0, complib |-> None,
                           shuffle |-> FALSE, fletcher32 |-> FALSE]
        /\ (~arg.isNone /\ arg.items = <<[name |-> "bzip2", values |-> <<9>>]>>
                /\ avail["bzip2"]) =>
              ret.value = [complevel |-> 9, complib |-> "bzip2",
                           shuffle |-> FALSE, fletcher32 |-> FALSE]

DeriveWitness ==
    /\ call = "from_leaf"
    /\ ~arg.isNone
    /\ arg.items = <<[name |-> "shuffle", values |-> <<>>],
                     [name |-> "deflate", values |-> <<0>>]>>
    /\ ret.status = "ok"
    /\ ret.value.shuffle = FALSE

----------------------------------------------------------------------------
\* the word pack(unpack(w)) is claimed to be: w with bytes 3..7 and bits 2..7
\* of byte 2 cleared, and byte 1 and the shuffle bit cleared too at level 0
Canonicalized(w) ==
    <<w[1],
      IF w[1] = 0 THEN 0 ELSE w[2],
      IF w[1] = 0 THEN (w[3] % 4) - (w[3] % 2) ELSE w[3] % 4,
      0, 0, 0, 0, 0>>

\* C10: with every registered library available, packing the result of an
\* accepted unpack(w) gives w canonicalized; unpacking that word again gives
\* the same configuration; and the packed word equals w exactly when w is
\* the pack of some valid configuration.
Canonicalization ==
    (AllAvailable /\ call = "unpack" /\ ret.status = "ok") =>
        /\ packed # NoWord =>
              /\ packed = Canonicalized(arg)
              /\ packed = arg <=> \E cfg \in ValidConfigs : _pack(cfg) = arg
        /\ copy.status # "none" =>
              /\ copy.status = "ok"
              /\ copy.value = ret.value

CanonicalizationWitness ==
    /\ AllAvailable
    /\ call = "unpack"
    /\ arg = <<0, 255, 255, 255, 255, 255, 255, 255>>
    /\ packed = Word(0, 0, 2)
    /\ copy.status = "ok"

====
